---- MODULE Spec2Model ----
(***************************************************************************)
(* The COVID-19 genetic-risk tutorial: scripts/test_tutorial.py (the       *)
(* self-test pipeline: data generation, gene-level aggregation, pathway    *)
(* enrichment, random interaction graph, network metrics, risk scoring,    *)
(* visualization) and scripts/create_synthetic_dataset.py (the seeded      *)
(* dataset generator).                                                     *)
(*                                                                         *)
(* Number formats.  The scripts compute in IEEE doubles; the model holds   *)
(* every quantity in fixed point, and every operation rounds its result to *)
(* the format, as a floating-point operation does:                         *)
(*   p_value       integer, unit 1e-8      (1e-8 = 1, 5e-5 = 5000)         *)
(*   odds_ratio    integer, unit 0.1       (1.1 = 11, 3.5 = 35)            *)
(*   edge weight   integer, unit 0.05      (0.4 = 8, 0.95 = 19)            *)
(*   probability   integer, unit 0.1       (0.3 = 3, 1.0 = 10)             *)
(*   scores        integer, unit 1/Prec    (log, mean, products, sums)     *)
(* One output of the pseudo-random generator is k/Res, k in 0..Res-1, a    *)
(* value of [0, 1).                                                        *)
(* Columns no modelled computation reads (rs_id, chromosome, position,     *)
(* allele_frequency, functional_consequence, related_disease,              *)
(* study_population, sample_size) are left out of the records.             *)
(***************************************************************************)
EXTENDS Integers, Sequences, FiniteSets, TLC

VARIABLES
    pc,                      \* position in scripts/test_tutorial.py
    n_variants,              \* test_tutorial.py:28
    df,                      \* the variant table (sequence of records)
    data,                    \* the name `data`: the column dict, later a pathway entry
    gene_summary,            \* sequence of per-gene summaries
    pathway_categories,      \* sequence of [name, genes]
    pathway_enrichment,      \* sequence of [name, overlap, total, enrichment_score]
    genes,                   \* create_test_network: parameter
    interaction_probability, \* create_test_network: parameter (tenths)
    G,                       \* create_test_network: the graph under construction
    i, j,                    \* create_test_network: loop indices (1-based)
    draws,                   \* history: the gene pairs line 100 drew a value for
    ppi_network,             \* the graph returned
    metrics,                 \* test 5: degree centrality and top hub
    gene_risk_scores,        \* gene -> risk score
    risk_df,                 \* genes sorted by risk score
    viz_log,                 \* lines printed by test 7
    N,                       \* create_synthetic_dataset.py: n_variants of both runs
    gen_pc,                  \* run -> position in generate_covid_risk_variants
    gen_data,                \* run -> rows appended so far
    np_tape,                 \* the outputs np.random gives after seed(42), as far as drawn
    py_tape                  \* the outputs random gives after seed(42), as far as drawn

pipeVars == <<pc, n_variants, df, data, gene_summary, pathway_categories,
              pathway_enrichment, genes, interaction_probability, G, i, j,
              draws, ppi_network, metrics, gene_risk_scores, risk_df, viz_log>>
genVars == <<N, gen_pc, gen_data, np_tape, py_tape>>
vars == <<pipeVars, genVars>>

---------------------------------------------------------------------------
(* Bounds of the model *)

\* Resolution of one pseudo-random output: k/Res, k in 0..Res-1.
Res == 2
\* Largest number of rows generated.
MaxN == 2
\* Longest gene sequence handed to create_test_network on its own.
MaxGenes == 3
\* Longest gene list of a pathway when the scorer is run on its own.
MaxLen == 2
\* Largest p_value (unit 1e-8) when the risk score is run on its own.
MaxP == 4
\* Scores are held to 1/Prec.
Prec == 2

---------------------------------------------------------------------------
(* Program constants *)

P_LOW == 1
P_HIGH == 5000
OR_LOW == 11
OR_HIGH == 35
W_LOW == 8
W_HIGH == 19
DefaultProbability == 3
TopK == 15

covid_genes ==
    << "ACE2", "TMPRSS2", "IFNAR2", "TYK2", "OAS1", "OAS2", "OAS3", "IFIH1",
       "IRF7", "IRF3", "STAT1", "STAT2", "IL6", "IL1B", "TNF", "CCL2",
       "CXCL10", "IFNG", "IL10", "IL4", "IL13", "CD14", "TLR3", "TLR7" >>

\* The generator script's longer list.
generator_genes ==
    covid_genes \o
    << "TLR8", "MYD88", "IRAK4", "IRF8", "NLRP3", "CASP1", "IL18",
       "HMGB1", "S100A8", "S100A9", "LCN2", "RETN", "ADIPOQ", "LEP",
       "CRP", "SAA1", "APOE", "LDLR", "PCSK9", "ANGPT2", "VWF",
       "F8", "SERPINE1", "PLAT", "PLG", "FGB", "FGA", "FGG",
       "PROC", "PROS1", "THBD", "EPCR", "TFPI", "AT3", "PC" >>

\* The gene symbols in the order groupby sorts its keys (string order).
Alphabetical ==
    << "ACE2", "CCL2", "CD14", "CXCL10", "IFIH1", "IFNAR2", "IFNG", "IL10",
       "IL13", "IL1B", "IL4", "IL6", "IRF3", "IRF7", "OAS1", "OAS2", "OAS3",
       "STAT1", "STAT2", "TLR3", "TLR7", "TMPRSS2", "TNF", "TYK2" >>

Taxonomy ==
    << [name |-> "Immune Response",
        genes |-> << "IFNAR2", "TYK2", "OAS1", "OAS2", "OAS3", "IFIH1",
                     "IRF7", "IRF3", "STAT1", "STAT2" >>],
       [name |-> "Inflammatory Response",
        genes |-> << "IL6", "IL1B", "TNF", "CCL2", "CXCL10", "IFNG", "IL10",
                     "IL4", "IL13" >>],
       [name |-> "Viral Entry", genes |-> << "ACE2", "TMPRSS2" >>],
       [name |-> "Innate Immunity", genes |-> << "CD14", "TLR3", "TLR7" >>] >>

---------------------------------------------------------------------------
(* The pseudo-random generator's interface *)

Draws == 0 .. (Res - 1)

\* A draw over (low, high]: u taken from (0, 1] instead of [0, 1).
UniformWrong(low, high, k) == low + ((high - low) * (k + 1)) \div Res

\* np.random.uniform(low, high): low + (high - low) * u, held to the unit.
Uniform(low, high, k) == low + ((high - low) * k) \div Res

\* np.random.choice(seq) / random.choice(seq): the element at floor(u * len).
Choice(seq, k) == seq[((Len(seq) * k) \div Res) + 1]

\* np.random.random() < interaction_probability
Below(k, prob) == 10 * k < prob * Res

Range(s) == {s[n] : n \in DOMAIN s}

---------------------------------------------------------------------------
(* Arithmetic *)

\* a / b rounded to the nearest integer (b > 0, a >= 0).
RoundDiv(a, b) == (2 * a + b) \div (2 * b)

\* Decimal digits, least significant first, of an unbounded natural.
RECURSIVE CarryDigits(_)
CarryDigits(c) == IF c = 0 THEN << >> ELSE << c % 10 >> \o CarryDigits(c \div 10)

RECURSIVE MulDigits(_, _, _)
MulDigits(ds, m, carry) ==
    IF ds = << >>
    THEN CarryDigits(carry)
    ELSE LET t == Head(ds) * m + carry
         IN  << t % 10 >> \o MulDigits(Tail(ds), m, t \div 10)

RECURSIVE PowDigits(_, _)
PowDigits(m, e) == IF e = 0 THEN << 1 >> ELSE MulDigits(PowDigits(m, e - 1), m, 0)

\* log10(m) in units of 1/Prec, rounded to nearest: the largest n with
\* 10^(n - 1/2) <= m^Prec, that is 10^(2n-1) <= m^(2 Prec), that is
\* m^(2 Prec) has at least 2n decimal digits.
RoundLog10(m) == Len(PowDigits(m, 2 * Prec)) \div 2

\* The p_values the model handles: the generator's grid and 1 .. MaxP.
PValues == {P_LOW + ((P_HIGH - P_LOW) * k) \div Res : k \in 0 .. (Res - 1)} \cup (1 .. MaxP)

\* RoundLog10 over PValues, evaluated once.
Log10Table == [m \in PValues |-> RoundLog10(m)]

\* -np.log10(p) for p in units of 1e-8, in units of 1/Prec.
NegLog10Wrong(p) == Log10Table[p]
NegLog10(p) == 8 * Prec - Log10Table[p]

\* Series.min(): a scan keeping the smallest element.
RECURSIVE SeqMin(_)
SeqMin(s) ==
    IF Len(s) = 1 THEN s[1]
    ELSE LET m == SeqMin(Tail(s)) IN IF s[1] <= m THEN s[1] ELSE m

RECURSIVE SeqSum(_)
SeqSum(s) == IF s = << >> THEN 0 ELSE Head(s) + SeqSum(Tail(s))

\* Series.mean() of odds ratios (unit 0.1), in units of 1/Prec.
Mean(s) == RoundDiv(Prec * SeqSum(s), 10 * Len(s))

Column(d, f) == [n \in DOMAIN d |-> d[n][f]]

\* Series.unique(): the distinct values in order of first appearance.
RECURSIVE Unique(_)
Unique(s) ==
    IF s = << >> THEN << >>
    ELSE LET u == Unique(SubSeq(s, 1, Len(s) - 1))
         IN  IF s[Len(s)] \in Range(u) THEN u ELSE Append(u, s[Len(s)])

\* sort_values(key, ascending=False) as pandas and numpy carry it out on a
\* short frame: descending by key, equal keys staying in their order.
RECURSIVE SortDesc(_, _)
SortDesc(s, key) ==
    IF s = << >> THEN << >>
    ELSE LET rest == SortDesc(SubSeq(s, 1, Len(s) - 1), key)
             x    == s[Len(s)]
             ahead == {n \in DOMAIN rest : rest[n][key] >= x[key]}
             k    == Cardinality(ahead)
         IN  SubSeq(rest, 1, k) \o << x >> \o SubSeq(rest, k + 1, Len(rest))

Head15(s) == SubSeq(s, 1, IF Len(s) < TopK THEN Len(s) ELSE TopK)

---------------------------------------------------------------------------
(* Test 2: gene-level analysis (groupby / agg) *)

Rows(d, g) == SelectSeq(d, LAMBDA r : r.host_gene = g)

AggMinWrong(s) == s[1]
AggMin(s) == SeqMin(s)

\* One output row of agg(): count of rs_id, min of p_value, mean of odds_ratio.
Summarise(g, rows) ==
    [host_gene     |-> g,
     variant_count |-> Len(rows),
     p_value       |-> AggMin(Column(rows, "p_value")),
     odds_ratio    |-> Mean(Column(rows, "odds_ratio"))]

\* groupby('host_gene'): one group per key present, keys in sorted order.
GroupByAgg(d) ==
    LET keys == SelectSeq(Alphabetical, LAMBDA g : \E n \in DOMAIN d : d[n].host_gene = g)
    IN  [n \in DOMAIN keys |-> Summarise(keys[n], Rows(d, keys[n]))]

---------------------------------------------------------------------------
(* Test 3: pathway analysis *)

\* overlap / total as a fraction in lowest terms; 0 is <<0, 1>>.
RECURSIVE Gcd(_, _)
Gcd(a, b) == IF b = 0 THEN a ELSE Gcd(b, a % b)
Frac(a, b) == LET g == Gcd(a, b) IN << a \div g, b \div g >>

\* len(set(genes) & set(unique_genes))
Overlap(gs, unique_genes) == Cardinality(Range(gs) \cap Range(unique_genes))

EnrichmentWrong(gs, unique_genes) ==
    LET overlap == Overlap(gs, unique_genes)
        total   == Len(unique_genes)
    IN  [overlap |-> overlap, total |-> Len(gs),
         enrichment_score |-> IF total > 0 THEN Frac(overlap, total) ELSE << 0, 1 >>]

\* Lines 78-85: the entry of one pathway.
Enrichment(gs, unique_genes) ==
    LET overlap == Overlap(gs, unique_genes)
        total_pathway_genes == Len(gs)
    IN  [overlap |-> overlap, total |-> total_pathway_genes,
         enrichment_score |-> IF total_pathway_genes > 0
                              THEN Frac(overlap, total_pathway_genes)
                              ELSE << 0, 1 >>]

---------------------------------------------------------------------------
(* Test 4: the graph *)

EmptyGraph == [nodes |-> << >>, edges |-> << >>]

\* Graph.add_node: a node already present is not added again.
AddNode(g, n) ==
    IF n \in Range(g.nodes) THEN g ELSE [g EXCEPT !.nodes = Append(@, n)]

RECURSIVE AddNodes(_, _)
AddNodes(g, ns) ==
    IF ns = << >> THEN g ELSE AddNodes(AddNode(g, Head(ns)), Tail(ns))

\* Graph.add_edge(u, v, weight=w): the edge {u, v} ({u} when u = v) gets the
\* weight, replacing the weight of an edge already there.
AddEdge(g, u, v, w) ==
    LET e == {u, v}
    IN  [g EXCEPT !.edges = [x \in (DOMAIN @) \cup {e} |-> IF x = e THEN w ELSE @[x]]]

NumberOfNodes(g) == Len(g.nodes)
NumberOfEdges(g) == Cardinality(DOMAIN g.edges)

\* Graph.degree: a self-loop counts twice.
Degree(g, n) ==
    Cardinality({e \in DOMAIN g.edges : n \in e}) + (IF {n} \in DOMAIN g.edges THEN 1 ELSE 0)

\* nx.degree_centrality: degree / (n - 1), kept as the pair; 1 for a lone node.
DegreeCentrality(g) ==
    [n \in Range(g.nodes) |->
        IF NumberOfNodes(g) <= 1 THEN << 1, 1 >>
        ELSE Frac(Degree(g, n), NumberOfNodes(g) - 1)]

\* max(degree_centrality, key=degree_centrality.get): the first node, in
\* insertion order, of largest centrality (same denominator: compare degrees).
TopHub(g) ==
    LET first == CHOOSE n \in DOMAIN g.nodes :
                    /\ \A m \in DOMAIN g.nodes : Degree(g, g.nodes[m]) <= Degree(g, g.nodes[n])
                    /\ \A m \in 1 .. (n - 1) : Degree(g, g.nodes[m]) < Degree(g, g.nodes[n])
    IN  g.nodes[first]

---------------------------------------------------------------------------
(* Test 6: risk score *)

\* Lines 127-132.
calculate_risk_score(gene_data) ==
    LET p_score       == NegLog10(SeqMin(Column(gene_data, "p_value")))
        or_score      == Mean(Column(gene_data, "odds_ratio"))
        variant_score == Prec * Len(gene_data)
    IN  RoundDiv(4 * p_score, 10) + RoundDiv(4 * or_score, 10)
          + RoundDiv(2 * variant_score, 10)

---------------------------------------------------------------------------
(* scripts/test_tutorial.py, top to bottom *)

Record(kg, kp, ko) ==
    [host_gene  |-> Choice(covid_genes, kg),
     p_value    |-> Uniform(P_LOW, P_HIGH, kp),
     odds_ratio |-> Uniform(OR_LOW, OR_HIGH, ko)]

netVars == <<genes, interaction_probability, G, i, j, draws>>

\* Lines 28-48: the columns are drawn and the table is built.
Generate ==
    /\ pc = "generate"
    /\ \E kg \in [1 .. n_variants -> Draws],
          kp \in [1 .. n_variants -> Draws],
          ko \in [1 .. n_variants -> Draws] :
            /\ df' = [n \in 1 .. n_variants |-> Record(kg[n], kp[n], ko[n])]
            /\ data' = df'
    /\ pc' = "gene_level"
    /\ UNCHANGED <<n_variants, gene_summary, pathway_categories, pathway_enrichment,
                   netVars, ppi_network, metrics, gene_risk_scores, risk_df, viz_log>>
    /\ UNCHANGED genVars

\* Lines 54-61: groupby, agg, sort_values.
GeneLevelAnalysis ==
    /\ pc = "gene_level"
    /\ gene_summary' = SortDesc(GroupByAgg(df), "variant_count")
    /\ pc' = "pathway"
    /\ UNCHANGED <<n_variants, df, data, pathway_categories, pathway_enrichment,
                   netVars, ppi_network, metrics, gene_risk_scores, risk_df, viz_log>>
    /\ UNCHANGED genVars

\* The printing loop of line 88 with `df` for its loop variable.
PathwayAnalysisWrong ==
    /\ pc = "pathway"
    /\ LET unique_genes == Unique(Column(df, "host_gene"))
       IN  pathway_enrichment' =
             [n \in DOMAIN pathway_categories |->
                [name  |-> pathway_categories[n].name,
                 entry |-> Enrichment(pathway_categories[n].genes, unique_genes)]]
    /\ df' = IF pathway_categories = << >>
             THEN df
             ELSE << pathway_enrichment'[Len(pathway_categories)].entry >>
    /\ pc' = "network"
    /\ UNCHANGED <<n_variants, data, gene_summary, pathway_categories,
                   netVars, ppi_network, metrics, gene_risk_scores, risk_df, viz_log>>
    /\ UNCHANGED genVars

\* Lines 74-89: the enrichment of every pathway; the printing loop of line 88
\* binds the name `data` to each entry in turn.
PathwayAnalysis ==
    /\ pc = "pathway"
    /\ LET unique_genes == Unique(Column(df, "host_gene"))
       IN  pathway_enrichment' =
             [n \in DOMAIN pathway_categories |->
                [name  |-> pathway_categories[n].name,
                 entry |-> Enrichment(pathway_categories[n].genes, unique_genes)]]
    /\ data' = IF pathway_categories = << >>
               THEN data
               ELSE pathway_enrichment'[Len(pathway_categories)].entry
    /\ pc' = "network"
    /\ UNCHANGED <<n_variants, df, gene_summary, pathway_categories,
                   netVars, ppi_network, metrics, gene_risk_scores, risk_df, viz_log>>
    /\ UNCHANGED genVars

\* Lines 105-106: the call create_test_network(top_genes_list).
NetworkCall ==
    /\ pc = "network"
    /\ genes' = Column(Head15(gene_summary), "host_gene")
    /\ interaction_probability' = DefaultProbability
    /\ pc' = "net_enter"
    /\ UNCHANGED <<n_variants, df, data, gene_summary, pathway_categories,
                   pathway_enrichment, G, i, j, draws, ppi_network, metrics,
                   gene_risk_scores, risk_df, viz_log>>
    /\ UNCHANGED genVars

\* Lines 94-96: the graph and its nodes.
NetEnter ==
    /\ pc = "net_enter"
    /\ G' = AddNodes(EmptyGraph, genes)
    /\ i' = 1
    /\ j' = 2
    /\ draws' = << >>
    /\ pc' = "net_loop"
    /\ UNCHANGED <<n_variants, df, data, gene_summary, pathway_categories,
                   pathway_enrichment, genes, interaction_probability, ppi_network,
                   metrics, gene_risk_scores, risk_df, viz_log>>
    /\ UNCHANGED genVars

\* Lines 98-102: one pass of the inner loop, for gene1 = genes[i], gene2 = genes[j].
PairStep ==
    /\ pc = "net_loop"
    /\ j <= Len(genes)
    /\ \E r \in Draws :
         IF Below(r, interaction_probability)
         THEN \E w \in Draws :
                 G' = AddEdge(G, genes[i], genes[j], Uniform(W_LOW, W_HIGH, w))
         ELSE G' = G
    /\ draws' = Append(draws, << genes[i], genes[j] >>)
    /\ IF j < Len(genes)
       THEN i' = i /\ j' = j + 1
       ELSE i' = i + 1 /\ j' = i + 2
    /\ UNCHANGED <<pc, n_variants, df, data, gene_summary, pathway_categories,
                   pathway_enrichment, genes, interaction_probability, ppi_network,
                   metrics, gene_risk_scores, risk_df, viz_log>>
    /\ UNCHANGED genVars

\* Lines 103, 106: the loops are over; the graph is returned.
NetReturn ==
    /\ pc = "net_loop"
    /\ j > Len(genes)
    /\ ppi_network' = G
    /\ pc' = "metrics"
    /\ UNCHANGED <<n_variants, df, data, gene_summary, pathway_categories,
                   pathway_enrichment, netVars, metrics, gene_risk_scores, risk_df,
                   viz_log>>
    /\ UNCHANGED genVars

\* Line 115: the guard of the metrics.
HasEdgesWrong(g) == TRUE
HasEdges(g) == NumberOfEdges(g) > 0

\* Lines 115-123.  Betweenness centrality is computed beside degree
\* centrality and read by nothing; the model records that it was computed.
NetworkMetrics ==
    /\ pc = "metrics"
    /\ IF HasEdges(ppi_network)
       THEN metrics' = [computed |-> TRUE,
                        degree_centrality |-> DegreeCentrality(ppi_network),
                        top_hub |-> TopHub(ppi_network)]
       ELSE metrics' = metrics
    /\ pc' = "risk"
    /\ UNCHANGED <<n_variants, df, data, gene_summary, pathway_categories,
                   pathway_enrichment, netVars, ppi_network, gene_risk_scores,
                   risk_df, viz_log>>
    /\ UNCHANGED genVars

\* Lines 134-141.
RiskScoring ==
    /\ pc = "risk"
    /\ LET unique_genes == Unique(Column(df, "host_gene"))
       IN  /\ gene_risk_scores' =
                [g \in Range(unique_genes) |-> calculate_risk_score(Rows(df, g))]
           /\ risk_df' =
                SortDesc([n \in DOMAIN unique_genes |->
                            [gene |-> unique_genes[n],
                             risk_score |-> gene_risk_scores'[unique_genes[n]]]],
                         "risk_score")
    /\ pc' = "viz"
    /\ UNCHANGED <<n_variants, df, data, gene_summary, pathway_categories,
                   pathway_enrichment, netVars, ppi_network, metrics, viz_log>>
    /\ UNCHANGED genVars

Failures == {"none", "matplotlib", "seaborn"}

\* The try block without its except clause: an exception ends the script.
VisualiseUncaught(failure) ==
    [next |-> IF failure = "none" THEN "done" ELSE "aborted",
     log  |-> IF failure = "none"
              THEN << "Matplotlib plotting works", "Seaborn plotting works" >>
              ELSE IF failure = "matplotlib"
                   THEN << >>
                   ELSE << "Matplotlib plotting works" >>]

\* Lines 148-168: what the block prints and where the script goes on, when
\* nothing fails, when the matplotlib part raises, when the seaborn part raises.
Visualise(failure) ==
    [next |-> "done",
     log  |-> IF failure = "none"
              THEN << "Matplotlib plotting works", "Seaborn plotting works" >>
              ELSE IF failure = "matplotlib"
                   THEN << "Visualization error" >>
                   ELSE << "Matplotlib plotting works", "Visualization error" >>]

\* Lines 147-173.
Visualization ==
    /\ pc = "viz"
    /\ \E failure \in Failures :
         /\ viz_log' = Visualise(failure).log
         /\ pc' = Visualise(failure).next
    /\ UNCHANGED <<n_variants, df, data, gene_summary, pathway_categories,
                   pathway_enrichment, netVars, ppi_network, metrics,
                   gene_risk_scores, risk_df>>
    /\ UNCHANGED genVars

GenIdle ==
    /\ N = 0
    /\ gen_pc = [r \in 1 .. 2 |-> "idle"]
    /\ gen_data = [r \in 1 .. 2 |-> << >>]
    /\ np_tape = << >>
    /\ py_tape = << >>

\* The state in which the script starts.
Init ==
    /\ pc = "generate"
    /\ n_variants \in 1 .. MaxN
    /\ df = << >>
    /\ data = << >>
    /\ gene_summary = << >>
    /\ pathway_categories = Taxonomy
    /\ pathway_enrichment = << >>
    /\ genes = << >>
    /\ interaction_probability = DefaultProbability
    /\ G = EmptyGraph
    /\ i = 1
    /\ j = 2
    /\ draws = << >>
    /\ ppi_network = EmptyGraph
    /\ metrics = [computed |-> FALSE]
    /\ gene_risk_scores = << >>
    /\ risk_df = << >>
    /\ viz_log = << >>
    /\ GenIdle

Next ==
    \/ Generate
    \/ GeneLevelAnalysis
    \/ PathwayAnalysis
    \/ NetworkCall
    \/ NetEnter
    \/ PairStep
    \/ NetReturn
    \/ NetworkMetrics
    \/ RiskScoring
    \/ Visualization

Spec == Init /\ [][Next]_vars

---------------------------------------------------------------------------
(* The functions of the script on inputs of their own *)

\* The gene symbols the generator's choice can return.
GeneAlphabet == {Choice(covid_genes, k) : k \in Draws}

\* The odds ratios the generator's draw can return.
OddsValues == {Uniform(OR_LOW, OR_HIGH, k) : k \in Draws}

\* Sequences over S of length lo .. hi.
SeqsOf(S, lo, hi) == UNION {[1 .. n -> S] : n \in lo .. hi}

\* Lists without a repeated element: a gene set written as a list.
SetLists(S, hi) == {s \in SeqsOf(S, 0, hi) : Cardinality(Range(s)) = Len(s)}

Tables(Gs, Ps, Os) ==
    SeqsOf([host_gene : Gs, p_value : Ps, odds_ratio : Os], 1, MaxN)

\* The script's variables before anything ran, at position p.
Blank(p) ==
    /\ pc = p
    /\ n_variants = 0
    /\ data = << >>
    /\ gene_summary = << >>
    /\ pathway_enrichment = << >>
    /\ G = EmptyGraph
    /\ i = 1
    /\ j = 2
    /\ draws = << >>
    /\ ppi_network = EmptyGraph
    /\ metrics = [computed |-> FALSE]
    /\ gene_risk_scores = << >>
    /\ risk_df = << >>
    /\ viz_log = << >>

\* create_test_network called with any gene sequence and probability 0, 0.3 or 1.
InitNet ==
    /\ Blank("net_enter")
    /\ GenIdle
    /\ df = << >>
    /\ pathway_categories = Taxonomy
    /\ genes \in SeqsOf(GeneAlphabet, 0, MaxGenes)
    /\ interaction_probability \in {0, DefaultProbability, 10}

NextNet ==
    \/ NetEnter
    \/ PairStep
    \/ NetReturn

SpecNet == InitNet /\ [][NextNet]_vars

\* The taxonomies of one or two pathways over the gene lists in L.
Taxonomies(L) ==
    {<< [name |-> "Pathway A", genes |-> a] >> : a \in L}
      \cup {<< [name |-> "Pathway A", genes |-> a], [name |-> "Pathway B", genes |-> b] >> :
               a \in L, b \in L}

\* The enrichment scorer on any table and any taxonomy of one or two pathways.
InitEnrich ==
    /\ Blank("pathway")
    /\ GenIdle
    /\ df \in Tables(GeneAlphabet, {P_LOW}, {OR_LOW})
    /\ pathway_categories \in Taxonomies(SetLists(GeneAlphabet, MaxLen))
    /\ genes = << >>
    /\ interaction_probability = DefaultProbability

NextEnrich == PathwayAnalysis

SpecEnrich == InitEnrich /\ [][NextEnrich]_vars

\* The risk score on any table with p_values of PValues.
InitRisk ==
    /\ Blank("risk")
    /\ GenIdle
    /\ df \in Tables(GeneAlphabet, PValues, OddsValues)
    /\ pathway_categories = Taxonomy
    /\ genes = << >>
    /\ interaction_probability = DefaultProbability

NextRisk == RiskScoring

SpecRisk == InitRisk /\ [][NextRisk]_vars

---------------------------------------------------------------------------
(* scripts/create_synthetic_dataset.py: two runs of the script, each seeded *)
(* with 42 (lines 6-7) and each calling generate_covid_risk_variants(N).    *)
(* What the two generators return after seed(42) is a fixed stream the      *)
(* model does not know: np_tape and py_tape hold the part of it drawn so    *)
(* far, and a draw beyond it may return any value.                          *)

Runs == {1, 2}

\* Without lines 6-7 a generator starts from the system's entropy: a draw
\* may return any value, whatever the other run drew.
SeededWrong(tape, idx, k) == TRUE

\* Lines 6-7: the idx-th output after seed(42) is the same in every run.
Seeded(tape, idx, k) == idx <= Len(tape) => k = tape[idx]

\* Lines 66-79, the fields kept.
GeneratorRecord(kg, kp, ko) ==
    [host_gene  |-> Choice(generator_genes, kg),
     p_value    |-> Uniform(P_LOW, P_HIGH, kp),
     odds_ratio |-> Uniform(OR_LOW, OR_HIGH, ko)]

\* Lines 41-79: one pass of the loop in run r.
GenRow(r) ==
    /\ gen_pc[r] = "loop"
    /\ Len(gen_data[r]) < N
    /\ LET n == Len(gen_data[r])
       IN  \E kg \in Draws, kp \in Draws, ko \in Draws :
             /\ Seeded(py_tape, n + 1, kg)
             /\ Seeded(np_tape, 2 * n + 1, kp)
             /\ Seeded(np_tape, 2 * n + 2, ko)
             /\ gen_data' = [gen_data EXCEPT ![r] = Append(@, GeneratorRecord(kg, kp, ko))]
             /\ py_tape' = IF n + 1 > Len(py_tape) THEN Append(py_tape, kg) ELSE py_tape
             /\ np_tape' = IF 2 * n + 1 > Len(np_tape)
                           THEN np_tape \o << kp, ko >>
                           ELSE np_tape
    /\ UNCHANGED <<N, gen_pc>>
    /\ UNCHANGED pipeVars

\* Line 81: range(n_variants) is exhausted; the table is returned.
GenReturn(r) ==
    /\ gen_pc[r] = "loop"
    /\ Len(gen_data[r]) >= N
    /\ gen_pc' = [gen_pc EXCEPT ![r] = "returned"]
    /\ UNCHANGED <<N, gen_data, np_tape, py_tape>>
    /\ UNCHANGED pipeVars

InitGen ==
    /\ Blank("idle")
    /\ df = << >>
    /\ pathway_categories = Taxonomy
    /\ genes = << >>
    /\ interaction_probability = DefaultProbability
    /\ N \in 0 .. MaxN
    /\ gen_pc = [r \in Runs |-> "loop"]
    /\ gen_data = [r \in Runs |-> << >>]
    /\ np_tape = << >>
    /\ py_tape = << >>

NextGen == \E r \in Runs : GenRow(r) \/ GenReturn(r)

SpecGen == InitGen /\ [][NextGen]_vars

---------------------------------------------------------------------------
(* Properties *)

GenesOf(d) == {d[n].host_gene : n \in DOMAIN d}
RowsOf(d, g) == {n \in DOMAIN d : d[n].host_gene = g}
Aggregated == pc \notin {"generate", "gene_level"}

\* C1: the gene summary has exactly one entry per host_gene present in the
\* table; an entry's variant_count is the number of rows of its gene (so it is
\* at least 1), its p_value is the minimum over exactly those rows, and the
\* variant_counts add up to the number of rows.
C1_GeneAggregator ==
    Aggregated =>
      /\ \A g \in GenesOf(df) :
           Cardinality({n \in DOMAIN gene_summary : gene_summary[n].host_gene = g}) = 1
      /\ \A n \in DOMAIN gene_summary :
           LET e == gene_summary[n]
               rows == RowsOf(df, e.host_gene)
           IN  /\ rows # {}
               /\ e.variant_count = Cardinality(rows)
               /\ e.variant_count >= 1
               /\ \E m \in rows : df[m].p_value = e.p_value
               /\ \A m \in rows : e.p_value <= df[m].p_value
      /\ SeqSum(Column(gene_summary, "variant_count")) = Len(df)

\* C1 witness: a gene with two rows whose smaller p_value is in the second row,
\* summarised.
C1_Witness ==
    /\ pc = "pathway"
    /\ Len(df) = 2
    /\ df[1].host_gene = df[2].host_gene
    /\ df[2].p_value < df[1].p_value
    /\ Len(gene_summary) = 1

\* C2: every pathway's enrichment_score is overlap / |gene_set|, overlap being
\* the number of genes both in the pathway's gene set and among the table's
\* host genes; a gene set within the table's genes scores 1, one disjoint from
\* them scores 0, an empty one scores 0, and scoring never fails.
C2_Enrichment ==
    pc = "network" =>
      /\ Len(pathway_enrichment) = Len(pathway_categories)
      /\ \A n \in DOMAIN pathway_enrichment :
           LET gs == Range(pathway_categories[n].genes)
               ds == GenesOf(df)
               e  == pathway_enrichment[n].entry
               ov == Cardinality(gs \cap ds)
           IN  /\ e.overlap = ov
               /\ e.enrichment_score[2] > 0
               /\ gs # {} => e.enrichment_score[1] * Cardinality(gs) = ov * e.enrichment_score[2]
               /\ (gs # {} /\ gs \subseteq ds) => e.enrichment_score = << 1, 1 >>
               /\ gs \cap ds = {} => e.enrichment_score = << 0, 1 >>
               /\ gs = {} => e.enrichment_score = << 0, 1 >>

\* C2 witness: scored, one pathway within the table's genes and one empty.
C2_Witness ==
    /\ pc = "network"
    /\ \E n \in DOMAIN pathway_enrichment, m \in DOMAIN pathway_enrichment :
         /\ pathway_categories[n].genes # << >>
         /\ Range(pathway_categories[n].genes) \subseteq GenesOf(df)
         /\ pathway_enrichment[n].entry.enrichment_score = << 1, 1 >>
         /\ pathway_categories[m].genes = << >>
         /\ pathway_enrichment[m].entry.enrichment_score = << 0, 1 >>

\* C3: for any gene sequence, create_test_network returns a graph without
\* edges when interaction_probability is 0, and a complete graph, of
\* k*(k-1)/2 edges on its k nodes, when interaction_probability is 1.
C3_ZeroOrComplete ==
    pc = "metrics" =>
      /\ interaction_probability = 0 => NumberOfEdges(ppi_network) = 0
      /\ interaction_probability = 10 =>
           2 * NumberOfEdges(ppi_network)
             = NumberOfNodes(ppi_network) * (NumberOfNodes(ppi_network) - 1)

RiskGenes == DOMAIN gene_risk_scores
MinP(g) == CHOOSE p \in {df[n].p_value : n \in RowsOf(df, g)} :
             \A n \in RowsOf(df, g) : p <= df[n].p_value
MeanOdds(g) == Mean(Column(Rows(df, g), "odds_ratio"))
Count(g) == Cardinality(RowsOf(df, g))

\* C4 as stated: with mean odds ratio and variant count equal, the gene of
\* smaller minimum p_value has the strictly larger risk score; with minimum
\* p_value and variant count equal, the gene of larger mean odds ratio has the
\* strictly larger risk score.
C4_StrictlyMonotone ==
    pc = "viz" =>
      \A g \in RiskGenes, h \in RiskGenes :
        /\ (Count(g) = Count(h) /\ MeanOdds(g) = MeanOdds(h) /\ MinP(h) < MinP(g))
             => gene_risk_scores[h] > gene_risk_scores[g]
        /\ (Count(g) = Count(h) /\ MinP(g) = MinP(h) /\ MeanOdds(h) > MeanOdds(g))
             => gene_risk_scores[h] > gene_risk_scores[g]

\* C4, amended: with mean odds ratio and variant count equal, the gene of
\* smaller minimum p_value has a risk score at least as large; with minimum
\* p_value and variant count equal, the gene of larger mean odds ratio has a
\* risk score at least as large.
C4_Monotone ==
    pc = "viz" =>
      \A g \in RiskGenes, h \in RiskGenes :
        /\ (Count(g) = Count(h) /\ MeanOdds(g) = MeanOdds(h) /\ MinP(h) < MinP(g))
             => gene_risk_scores[h] >= gene_risk_scores[g]
        /\ (Count(g) = Count(h) /\ MinP(g) = MinP(h) /\ MeanOdds(h) > MeanOdds(g))
             => gene_risk_scores[h] >= gene_risk_scores[g]

\* C4 witness: two genes scored, alike in count and mean odds ratio, the one of
\* smaller minimum p_value with the strictly larger score.
C4_Witness ==
    /\ pc = "viz"
    /\ \E g \in RiskGenes, h \in RiskGenes :
         /\ Count(g) = Count(h)
         /\ MeanOdds(g) = MeanOdds(h)
         /\ MinP(h) < MinP(g)
         /\ gene_risk_scores[h] > gene_risk_scores[g]

AllRows == {<< r, n >> : r \in Runs, n \in 1 .. MaxN + 1}
RowsDone == {x \in AllRows : x[2] <= Len(gen_data[x[1]])}

\* C5 as stated: a returned table has exactly N rows, and every p_value is
\* strictly between 1e-8 and 5e-5, every odds_ratio strictly between 1.1 and 3.5.
C5_StrictlyInside ==
    /\ \A r \in Runs : gen_pc[r] = "returned" => Len(gen_data[r]) = N
    /\ \A x \in RowsDone :
         LET row == gen_data[x[1]][x[2]]
         IN  /\ P_LOW < row.p_value /\ row.p_value < P_HIGH
             /\ OR_LOW < row.odds_ratio /\ row.odds_ratio < OR_HIGH

\* C5, amended: a returned table has exactly N rows, and every p_value is in
\* [1e-8, 5e-5), every odds_ratio in [1.1, 3.5): the lower end can be drawn,
\* the upper end cannot.
C5_HalfOpen ==
    /\ \A r \in Runs : gen_pc[r] = "returned" => Len(gen_data[r]) = N
    /\ \A x \in RowsDone :
         LET row == gen_data[x[1]][x[2]]
         IN  /\ P_LOW <= row.p_value /\ row.p_value < P_HIGH
             /\ OR_LOW <= row.odds_ratio /\ row.odds_ratio < OR_HIGH

\* C5 witness: a returned table of N >= 1 rows holding the p_value 1e-8.
C5_Witness ==
    /\ gen_pc[1] = "returned"
    /\ N >= 1
    /\ Len(gen_data[1]) = N
    /\ \E n \in DOMAIN gen_data[1] : gen_data[1][n].p_value = P_LOW

\* C6: the visualization step always leads to the completion step, whatever
\* raised inside it; it prints the error when something raised and both
\* success lines when nothing did; and it leaves the table, the gene summary,
\* the enrichment, the graph and the risk scores as they were.
C6_VisualizationNonFatal ==
    [][pc = "viz" =>
         /\ pc' = "done"
         /\ viz_log' = << "Matplotlib plotting works", "Seaborn plotting works" >>
              \/ viz_log'[Len(viz_log')] = "Visualization error"
         /\ UNCHANGED <<df, gene_summary, pathway_enrichment, ppi_network, metrics,
                        gene_risk_scores, risk_df>>]_vars

\* C6 witness: the script completed after the seaborn part raised.
C6_Witness ==
    /\ pc = "done"
    /\ viz_log = << "Matplotlib plotting works", "Visualization error" >>
    /\ DOMAIN gene_risk_scores # {}

\* C7: two runs under the same seed and with the same N agree on every row
\* both have generated, and return identical tables.
C7_Deterministic ==
    /\ \A n \in 1 .. MaxN + 1 :
         (n <= Len(gen_data[1]) /\ n <= Len(gen_data[2])) => gen_data[1][n] = gen_data[2][n]
    /\ (gen_pc[1] = "returned" /\ gen_pc[2] = "returned") => gen_data[1] = gen_data[2]

\* C7 witness: both runs returned a table of at least two rows.
C7_Witness ==
    /\ gen_pc[1] = "returned"
    /\ gen_pc[2] = "returned"
    /\ Len(gen_data[1]) >= 2
    /\ Len(gen_data[2]) >= 2

PastMetrics == pc \in {"risk", "viz", "done"}

\* C8: past the metrics step, the centralities were computed if and only if
\* the graph has an edge; with no edge the step is skipped, nothing is raised
\* and the script is at risk scoring or beyond.
C8_EmptyEdgeGuard ==
    /\ pc # "aborted"
    /\ PastMetrics => (metrics.computed <=> NumberOfEdges(ppi_network) > 0)
    /\ (PastMetrics /\ NumberOfEdges(ppi_network) = 0) => metrics = [computed |-> FALSE]

\* C8 witness: risk scoring reached with a graph of two nodes and no edge, the
\* metrics skipped.
C8_Witness ==
    /\ pc = "risk"
    /\ NumberOfNodes(ppi_network) >= 2
    /\ NumberOfEdges(ppi_network) = 0
    /\ ~ metrics.computed

PairDraws(a, b) == {n \in DOMAIN draws : {draws[n][1], draws[n][2]} = {a, b}}

\* C9: for any gene sequence, repeated genes included, the graph returned has
\* one node per distinct gene, no edge from a gene to itself, exactly one draw
\* of line 100 for every unordered pair of distinct genes, and every weight
\* strictly between 0.4 and 0.95.
C9_Structure ==
    pc = "metrics" =>
      /\ Range(ppi_network.nodes) = Range(genes)
      /\ NumberOfNodes(ppi_network) = Cardinality(Range(genes))
      /\ \A e \in DOMAIN ppi_network.edges : Cardinality(e) = 2
      /\ \A a \in Range(genes), b \in Range(genes) :
           a # b => Cardinality(PairDraws(a, b)) = 1
      /\ \A e \in DOMAIN ppi_network.edges :
           W_LOW < ppi_network.edges[e] /\ ppi_network.edges[e] < W_HIGH

\* C10: once built, the table is changed by no later step; once built and
\* sorted, the gene summary is changed by no later step; and a step past
\* enrichment, graph building, metrics and risk scoring leaves the outputs of
\* the steps before it as they were.
C10_ForwardOnly ==
    [][/\ pc # "generate" => df' = df
       /\ pc \notin {"generate", "gene_level"} => gene_summary' = gene_summary
       /\ pc \notin {"generate", "gene_level", "pathway"}
            => pathway_enrichment' = pathway_enrichment
       /\ pc \in {"metrics", "risk", "viz"} => ppi_network' = ppi_network
       /\ pc \in {"risk", "viz"} => metrics' = metrics
       /\ pc = "viz" => gene_risk_scores' = gene_risk_scores]_vars

\* C10 witness: the script completed with the table and the summary in place.
C10_Witness ==
    /\ pc = "done"
    /\ Len(df) = 2
    /\ Len(gene_summary) = 2
    /\ NumberOfEdges(ppi_network) = 1

====
